---- MODULE Spec2Model ----
(***************************************************************************)
(* Model of just_setup_git (main.go): an interactive wizard that collects  *)
(* six answers in a terminal form and then runs git config, ssh-keygen and *)
(* ssh-add in a fixed order.  Every external command is one step whose     *)
(* outcome (exit status) is chosen by the environment.                     *)
(*                                                                         *)
(* Text that the program inspects character by character (username,       *)
(* email) is a sequence of one-character strings; file paths, which the    *)
(* program only concatenates, are strings.                                 *)
(***************************************************************************)
EXTENDS Naturals, Sequences, FiniteSets

VARIABLES pc,          \* position of the single thread of main
          gitContext,  \* main.go:17
          username,    \* main.go:18
          email,       \* main.go:19
          ignoreSSH,   \* main.go:20
          sshPath,     \* main.go:21
          signing,     \* main.go:22
          formErr,     \* validation error shown by the focused form field
          fs,          \* public key files on disk: file name -> content
          calls,       \* external operations issued so far, in order
          out,         \* lines printed so far
          exitCode     \* <<>> while running, <<status>> once the process exited

vars == <<pc, gitContext, username, email, ignoreSSH, sshPath, signing,
          formErr, fs, calls, out, exitCode>>

----------------------------------------------------------------------------
(* Bounds *)

\* longest text typed into the username and email fields
MaxLen == 2

----------------------------------------------------------------------------
(* Inputs *)

Alphabet == {"a", "@", "."}

RECURSIVE StrsOfLen(_)
StrsOfLen(n) ==
    IF n = 0 THEN {<<>>}
    ELSE {Append(s, c) : s \in StrsOfLen(n - 1), c \in Alphabet}

Strs == UNION {StrsOfLen(n) : n \in 0..MaxLen}

HomeDirs == {"/home/mason", "/home/alice"}

HardcodedPath == "/home/mason/.ssh/id_ed25519"

DefaultPath(home) == home \o "/.ssh/id_ed25519"

\* what the user may leave in the key path field: the pre-filled default,
\* another path, or nothing at all (the field has no validator)
TypedPaths(prefill) == {prefill, "/tmp/key", ""}

KeyPaths == {DefaultPath(h) : h \in HomeDirs} \cup {"/tmp/key", "", HardcodedPath}

PubFile(p) == p \o ".pub"

PubFiles == {PubFile(p) : p \in KeyPaths}

\* a file of fs: absent, or present with its text
NoFile == [exists |-> FALSE, data |-> ""]

\* a public key that was on disk before the run
OldKey == [exists |-> TRUE, data |-> "ssh-ed25519 AAAA-old"]

\* the public key ssh-keygen writes
NewKey == [exists |-> TRUE, data |-> "ssh-ed25519 AAAA-new"]

----------------------------------------------------------------------------
(* Pure helpers *)

\* strings.Contains: substr occurs in s as a contiguous run
Contains(s, substr) ==
    \E i \in 0..Len(s) :
        /\ i + Len(substr) <= Len(s)
        /\ SubSeq(s, i + 1, i + Len(substr)) = substr

ValidateUsername(str) ==
    IF str = <<>> THEN "Username Required" ELSE ""

\* a validator that rejects only when both characters are missing
ValidateEmail_eitherChar(str) ==
    IF ~Contains(str, <<"@">>) /\ ~Contains(str, <<".">>)
    THEN "Not valid email address" ELSE ""

ValidateEmail(str) ==
    IF ~Contains(str, <<"@">>) \/ ~Contains(str, <<".">>)
    THEN "Not valid email address" ELSE ""

\* lipgloss Style.Render wraps the text in the style's escape codes
Render(style, text) == "<" \o style \o ">" \o text \o "</>"

\* success prints the check mark and the message on one line
success(o, msg) == Append(o, Render("success", "v ") \o Render("success", msg))

warning(o, msg) == Append(o, Render("warning", msg))

\* the package-level panic: banner, then log.Fatal prints err and exits 1
panic(err) ==
    /\ out' = Append(Append(out, Render("error", "! Fatal Error !")), err)
    /\ exitCode' = <<1>>
    /\ pc' = "exited"

----------------------------------------------------------------------------
(* Records of the external operations *)

GitConfig(site, key, value, ok) ==
    [prog |-> "git", site |-> site, scope |-> gitContext,
     key |-> key, value |-> value, ok |-> ok]

Keygen(site, ok) ==
    [prog |-> "ssh-keygen", site |-> site, t |-> "ed25519",
     f |-> sshPath, C |-> email, ok |-> ok]

SshAdd(ok) ==
    [prog |-> "ssh-add", site |-> "setupSSH", file |-> sshPath, ok |-> ok]

ReadFile(name, ok) ==
    [prog |-> "ReadFile", site |-> "almostDone", name |-> name, ok |-> ok]

----------------------------------------------------------------------------
(* Initial state *)

Init ==
    /\ pc = "promptForm"
    /\ gitContext = ""
    /\ username = <<>>
    /\ email = <<>>
    /\ ignoreSSH = FALSE
    /\ sshPath = ""
    /\ signing = FALSE
    /\ formErr = ""
    /\ \E pre \in SUBSET {PubFile(HardcodedPath), PubFile("/tmp/key")} :
          fs = [n \in PubFiles |-> IF n \in pre THEN OldKey ELSE NoFile]
    /\ calls = <<>>
    /\ out = <<>>
    /\ exitCode = <<>>

----------------------------------------------------------------------------
(* promptForm: main.go:79-152 *)

form == <<gitContext, username, email, ignoreSSH, sshPath, signing, formErr>>

\* user.Current() and the pre-fill of the key path.  Its error is dropped;
\* on failure currentUser is nil and reading HomeDir crashes the process
\* (Go runtime panic, exit status 2).
promptForm ==
    /\ pc = "promptForm"
    /\ \/ \E home \in HomeDirs :
             /\ sshPath' = DefaultPath(home)
             /\ pc' = "form_gitContext"
             /\ UNCHANGED <<out, exitCode>>
       \/ /\ out' = Append(out, "panic: runtime error: nil pointer dereference")
          /\ exitCode' = <<2>>
          /\ pc' = "exited"
          /\ UNCHANGED sshPath
    /\ UNCHANGED <<gitContext, username, email, ignoreSSH, signing, formErr,
                   fs, calls>>

form_gitContext ==
    /\ pc = "form_gitContext"
    /\ \E v \in {"--global", "--local"} : gitContext' = v
    /\ pc' = "form_username"
    /\ UNCHANGED <<username, email, ignoreSSH, sshPath, signing, formErr,
                   fs, calls, out, exitCode>>

\* the field writes the typed text through Value(&username); it lets the
\* user move on only when the validator returns nil
form_username ==
    /\ pc = "form_username"
    /\ \E str \in Strs :
          /\ username' = str
          /\ formErr' = ValidateUsername(str)
          /\ pc' = IF ValidateUsername(str) = "" THEN "form_email" ELSE pc
    /\ UNCHANGED <<gitContext, email, ignoreSSH, sshPath, signing,
                   fs, calls, out, exitCode>>

form_email ==
    /\ pc = "form_email"
    /\ \E str \in Strs :
          /\ email' = str
          /\ formErr' = ValidateEmail(str)
          /\ pc' = IF ValidateEmail(str) = "" THEN "form_ignoreSSH" ELSE pc
    /\ UNCHANGED <<gitContext, username, ignoreSSH, sshPath, signing,
                   fs, calls, out, exitCode>>

form_ignoreSSH ==
    /\ pc = "form_ignoreSSH"
    /\ \E v \in BOOLEAN : ignoreSSH' = v
    /\ pc' = "form_sshPath"
    /\ UNCHANGED <<gitContext, username, email, sshPath, signing, formErr,
                   fs, calls, out, exitCode>>

\* no Validate on this input: whatever is in the field is accepted
form_sshPath ==
    /\ pc = "form_sshPath"
    /\ \E v \in TypedPaths(sshPath) : sshPath' = v
    /\ pc' = "form_signing"
    /\ UNCHANGED <<gitContext, username, email, ignoreSSH, signing, formErr,
                   fs, calls, out, exitCode>>

\* last field: form.Run() returns nil and main goes on to setupGit
form_signing ==
    /\ pc = "form_signing"
    /\ \E v \in BOOLEAN : signing' = v
    /\ pc' = "setupGit_name"
    /\ UNCHANGED <<gitContext, username, email, ignoreSSH, sshPath, formErr,
                   fs, calls, out, exitCode>>

FormFields == {"form_gitContext", "form_username", "form_email",
               "form_ignoreSSH", "form_sshPath", "form_signing"}

\* the user cancels the form: form.Run() returns an error, main panics
form_abort ==
    /\ pc \in FormFields
    /\ panic("user aborted")
    /\ UNCHANGED <<form, fs, calls>>

----------------------------------------------------------------------------
(* main's dispatch after each step: main.go:37-51 *)

\* setupSigning without its "if ignoreSSH" guard around generateSSH
AfterSetupSSH_alwaysGenerate ==
    IF signing THEN "setupSigning_generateSSH" ELSE "main_end"

\* after setupSSH (or its skipping): if signing { setupSigning() }, whose
\* first statement is: if ignoreSSH { generateSSH() }
AfterSetupSSH ==
    IF signing
    THEN IF ignoreSSH THEN "setupSigning_generateSSH" ELSE "setupSigning_format"
    ELSE "main_end"

\* after setupGit returned nil: if !ignoreSSH { setupSSH() }
AfterSetupGit ==
    IF ~ignoreSSH THEN "setupSSH_generateSSH" ELSE AfterSetupSSH

----------------------------------------------------------------------------
(* setupGit: main.go:155-169 *)

setupGit_name ==
    /\ pc = "setupGit_name"
    /\ \E ok \in BOOLEAN :
          /\ calls' = Append(calls, GitConfig("setupGit", "user.name", username, ok))
          /\ IF ok
             THEN /\ out' = success(out, "Successfully set git username")
                  /\ pc' = "setupGit_email"
                  /\ UNCHANGED exitCode
             ELSE panic("exit status 1")
    /\ UNCHANGED <<form, fs>>

setupGit_email ==
    /\ pc = "setupGit_email"
    /\ \E ok \in BOOLEAN :
          /\ calls' = Append(calls, GitConfig("setupGit", "user.email", username, ok))
          /\ IF ok
             THEN /\ out' = success(out, "Successfully set git email")
                  /\ pc' = AfterSetupGit
                  /\ UNCHANGED exitCode
             ELSE panic("exit status 1")
    /\ UNCHANGED <<form, fs>>

----------------------------------------------------------------------------
(* generateSSH: main.go:171-185, called by setupSSH and by setupSigning *)

\* the file ssh-keygen writes: the -f argument; with an empty -f it asks
\* on the terminal, and the user may name any file
KeygenTargets(f) == IF f = "" THEN KeyPaths \ {""} ELSE {f}

\* a caller that drops generateSSH's error and carries on
generateSSH_errIgnored ==
    /\ pc \in {"setupSSH_generateSSH", "setupSigning_generateSSH"}
    /\ LET site == IF pc = "setupSSH_generateSSH" THEN "setupSSH" ELSE "setupSigning"
       IN \E ok \in BOOLEAN :
             /\ calls' = Append(calls, Keygen(site, ok))
             /\ IF ok
                THEN /\ \E target \in KeygenTargets(sshPath) :
                           fs' = [fs EXCEPT ![PubFile(target)] = NewKey]
                     /\ out' = success(out, "Successfully generated ssh key")
                ELSE UNCHANGED <<fs, out>>
             /\ pc' = IF site = "setupSSH" THEN "setupSSH_sshAdd"
                                           ELSE "setupSigning_format"
             /\ UNCHANGED exitCode
    /\ UNCHANGED form

generateSSH ==
    /\ pc \in {"setupSSH_generateSSH", "setupSigning_generateSSH"}
    /\ LET site == IF pc = "setupSSH_generateSSH" THEN "setupSSH" ELSE "setupSigning"
       IN \E ok \in BOOLEAN :
             /\ calls' = Append(calls, Keygen(site, ok))
             /\ IF ok
                THEN /\ \E target \in KeygenTargets(sshPath) :
                           fs' = [fs EXCEPT ![PubFile(target)] = NewKey]
                     /\ out' = success(out, "Successfully generated ssh key")
                     /\ pc' = IF site = "setupSSH" THEN "setupSSH_sshAdd"
                                                   ELSE "setupSigning_format"
                     /\ UNCHANGED exitCode
                ELSE /\ panic("Failed while generating SSH key")
                     /\ UNCHANGED fs
    /\ UNCHANGED form

----------------------------------------------------------------------------
(* setupSSH: main.go:188-200 *)

setupSSH_sshAdd ==
    /\ pc = "setupSSH_sshAdd"
    /\ \E ok \in BOOLEAN :
          /\ calls' = Append(calls, SshAdd(ok))
          /\ out' = IF ok THEN out
                    ELSE warning(out, "Warning Failed to add SSH key using ssh-add")
    /\ pc' = AfterSetupSSH
    /\ UNCHANGED <<form, fs, exitCode>>

----------------------------------------------------------------------------
(* setupSigning: main.go:203-230 *)

\* setupSigning without the error check after the gpg.format write
setupSigning_format_errIgnored ==
    /\ pc = "setupSigning_format"
    /\ \E ok \in BOOLEAN :
          /\ calls' = Append(calls, GitConfig("setupSigning", "gpg.format", "ssh", ok))
          /\ out' = success(out, "Successfully set git signing type")
    /\ pc' = "setupSigning_key"
    /\ UNCHANGED <<form, fs, exitCode>>

setupSigning_format ==
    /\ pc = "setupSigning_format"
    /\ \E ok \in BOOLEAN :
          /\ calls' = Append(calls, GitConfig("setupSigning", "gpg.format", "ssh", ok))
          /\ IF ok
             THEN /\ out' = success(out, "Successfully set git signing type")
                  /\ pc' = "setupSigning_key"
                  /\ UNCHANGED exitCode
             ELSE panic("exit status 1")
    /\ UNCHANGED <<form, fs>>

setupSigning_key ==
    /\ pc = "setupSigning_key"
    /\ \E ok \in BOOLEAN :
          /\ calls' = Append(calls, GitConfig("setupSigning", "user.signingkey", sshPath, ok))
          /\ IF ok
             THEN /\ out' = success(out, "Successfully set git signing key")
                  /\ pc' = "setupSigning_gpgsign"
                  /\ UNCHANGED exitCode
             ELSE panic("exit status 1")
    /\ UNCHANGED <<form, fs>>

setupSigning_gpgsign ==
    /\ pc = "setupSigning_gpgsign"
    /\ \E ok \in BOOLEAN :
          /\ calls' = Append(calls, GitConfig("setupSigning", "commit.gpgsign", "true", ok))
          /\ IF ok
             THEN /\ out' = success(out, "Successfully set git to sign commits by default")
                  /\ pc' = "main_end"
                  /\ UNCHANGED exitCode
             ELSE panic("exit status 1")
    /\ UNCHANGED <<form, fs>>

----------------------------------------------------------------------------
(* almostDone: main.go:233-255, and the end of main: main.go:52-59 *)

\* the lines almostDone prints once the public key was read
Summary(pub) ==
    << Render("info", "Almost Done!"),
       "Key:",
       Render("info", pub.data),
       Render("info", "eval $(ssh-agent -s)") >>

\* almostDone reads path.pub; on a read error it returns the error before
\* printing anything.  The value is <<lines printed, operation record>>.
almostDone(path) ==
    LET name == PubFile(path)
    IN  IF fs[name].exists
        THEN <<Summary(fs[name]), ReadFile(name, TRUE)>>
        ELSE <<(<<>>), ReadFile(name, FALSE)>>

\* a main that calls almostDone whatever was chosen
WantsSummary_always == TRUE

\* whether main calls almostDone: if !ignoreSSH || signing
WantsSummary == ~ignoreSSH \/ signing

\* line 52 resets sshPath; almostDone's result is not looked at by main;
\* main returns and the process exits 0
main_end ==
    /\ pc = "main_end"
    /\ sshPath' = HardcodedPath
    /\ IF WantsSummary
       THEN /\ out' = out \o almostDone(sshPath')[1]
            /\ calls' = Append(calls, almostDone(sshPath')[2])
       ELSE /\ out' = success(out, "Finished!")
            /\ UNCHANGED calls
    /\ exitCode' = <<0>>
    /\ pc' = "exited"
    /\ UNCHANGED <<gitContext, username, email, ignoreSSH, signing, formErr, fs>>

----------------------------------------------------------------------------

Next ==
    \/ promptForm
    \/ form_gitContext
    \/ form_username
    \/ form_email
    \/ form_ignoreSSH
    \/ form_sshPath
    \/ form_signing
    \/ form_abort
    \/ setupGit_name
    \/ setupGit_email
    \/ generateSSH
    \/ setupSSH_sshAdd
    \/ setupSigning_format
    \/ setupSigning_key
    \/ setupSigning_gpgsign
    \/ main_end

Spec == Init /\ [][Next]_vars

----------------------------------------------------------------------------
(* Vocabulary of the properties *)

IsGit(c, key) == c.prog = "git" /\ c.key = key

IsKeygen(c) == c.prog = "ssh-keygen"

GitKeys == {"user.name", "user.email", "gpg.format", "user.signingkey", "commit.gpgsign"}

SigningKeys == {"gpg.format", "user.signingkey", "commit.gpgsign"}

IsAnyGit(c) == c.prog = "git" /\ c.key \in GitKeys

IsSigningWrite(c) == c.prog = "git" /\ c.key \in SigningKeys

KeygenAt == {i \in DOMAIN calls : IsKeygen(calls[i])}

SigningWriteAt == {i \in DOMAIN calls : IsSigningWrite(calls[i])}

\* the character c occurs in the text s
HasChar(s, c) == \E i \in 1..Len(s) : s[i] = c

\* the summary of almostDone is on the terminal
SummaryPrinted == \E i \in DOMAIN out : out[i] = "Key:"

\* the line printed right after "Key:"
PrintedKeyLines == {out[i + 1] : i \in {j \in DOMAIN out : out[j] = "Key:"}}

Exited == pc = "exited"

\* setupGit returned nil: both identity writes were issued and succeeded
PastSetupGit == Len(calls) >= 2 /\ calls[1].ok /\ calls[2].ok

----------------------------------------------------------------------------
(* C1  setupGit's second write sets user.email to the email collected by    *)
(*     the form, at the scope of the user.name write.                       *)

C1_EmailWriteSetsEmail ==
    \A i \in DOMAIN calls :
        IsGit(calls[i], "user.email") =>
            /\ calls[i].value = email
            /\ i = 2
            /\ IsGit(calls[1], "user.name")
            /\ calls[i].scope = calls[1].scope

(* C2  Whenever the summary is printed, the file that was read is           *)
(*     <path>.pub for the (non-empty) path entered in the form and handed   *)
(*     to ssh-keygen with -f, and the key printed is the text of that file. *)

C2_SummaryReadsConfiguredPath ==
    SummaryPrinted =>
        \A k \in KeygenAt : calls[k].f # "" =>
            /\ calls[Len(calls)].prog = "ReadFile"
            /\ calls[Len(calls)].name = PubFile(calls[k].f)
            /\ PrintedKeyLines = {Render("info", fs[PubFile(calls[k].f)].data)}

(* C3  A failed read of the public key file ends the run with a non-zero    *)
(*     exit status; the process never exits 0 after the read failed.        *)

C3_ReadFailureAborts ==
    \A i \in DOMAIN calls :
        (calls[i].prog = "ReadFile" /\ ~calls[i].ok) =>
            /\ Exited
            /\ exitCode # <<0>>
            /\ Len(exitCode) = 1

(* C4  A failed git configuration command, at any of the five positions,    *)
(*     is the last operation of the run: nothing is issued after it, the    *)
(*     fatal banner and the error are the last lines printed, and the       *)
(*     process has exited with status 1.                                    *)

C4_GitFailureHalts ==
    \A i \in DOMAIN calls :
        (IsAnyGit(calls[i]) /\ ~calls[i].ok) =>
            /\ i = Len(calls)
            /\ Exited
            /\ exitCode = <<1>>
            /\ ~SummaryPrinted
            /\ Len(out) >= 2
            /\ out[Len(out) - 1] = Render("error", "! Fatal Error !")
            /\ \A j \in 1..(i - 1) : calls[j].prog # "ssh-add" => calls[j].ok

C4_Witness ==
    /\ Len(calls) = 7
    /\ IsGit(calls[7], "commit.gpgsign")
    /\ ~calls[7].ok
    /\ IsKeygen(calls[3])
    /\ exitCode = <<1>>

(* C5  ssh-keygen runs at most once, before every signing write; once the   *)
(*     identity step is passed it is the very next operation: issued by     *)
(*     setupSSH when SSH was not skipped, by setupSigning when SSH was      *)
(*     skipped and signing chosen, and never when both were declined.       *)

C5_KeygenOnceBeforeSigning ==
    /\ Cardinality(KeygenAt) <= 1
    /\ \A k \in KeygenAt : \A j \in SigningWriteAt : k < j
    /\ SigningWriteAt # {} => KeygenAt # {}
    /\ (PastSetupGit /\ ~ignoreSSH) =>
           \/ pc = "setupSSH_generateSSH" /\ KeygenAt = {}
           \/ KeygenAt = {3} /\ calls[3].site = "setupSSH"
    /\ (PastSetupGit /\ ignoreSSH /\ signing) =>
           \/ pc = "setupSigning_generateSSH" /\ KeygenAt = {}
           \/ KeygenAt = {3} /\ calls[3].site = "setupSigning"
    /\ (PastSetupGit /\ ignoreSSH /\ ~signing) => KeygenAt = {}

C5_Witness ==
    /\ Exited
    /\ exitCode = <<0>>
    /\ ~ignoreSSH
    /\ signing
    /\ KeygenAt = {3}
    /\ SigningWriteAt = {5, 6, 7}

(* C6  With SSH skipped, signing declined and both identity writes          *)
(*     successful, the finished run is exactly: user.name write, user.email *)
(*     write, the line "Finished!", exit status 0 -- no key generation, no  *)
(*     agent registration, no file read, no summary.                        *)

C6_MinimalRun ==
    (Exited /\ ignoreSSH /\ ~signing /\ PastSetupGit) =>
        /\ Len(calls) = 2
        /\ IsGit(calls[1], "user.name")
        /\ IsGit(calls[2], "user.email")
        /\ exitCode = <<0>>
        /\ ~SummaryPrinted
        /\ Len(out) = 3
        /\ out[3] = Render("success", "v ") \o Render("success", "Finished!")

C6_Witness ==
    /\ Exited
    /\ ignoreSSH
    /\ ~signing
    /\ PastSetupGit
    /\ exitCode = <<0>>

(* C7  After a failed ssh-add, if every other command of the run succeeds,  *)
(*     the finished run has printed the summary and exited 0.               *)

C7_SshAddFailureStillPrintsSummary ==
    ( /\ Exited
      /\ \E i \in DOMAIN calls : calls[i].prog = "ssh-add" /\ ~calls[i].ok
      /\ \A j \in DOMAIN calls :
             calls[j].prog \in {"git", "ssh-keygen"} => calls[j].ok )
    => (SummaryPrinted /\ exitCode = <<0>>)

(* C8  A failed ssh-keygen, in setupSSH or in setupSigning, is the last     *)
(*     operation of the run: no ssh-add, no signing write and no summary    *)
(*     follow, and the process has exited with status 1.                    *)

C8_KeygenFailureAborts ==
    \A i \in DOMAIN calls :
        (IsKeygen(calls[i]) /\ ~calls[i].ok) =>
            /\ i = Len(calls)
            /\ Exited
            /\ exitCode = <<1>>
            /\ SigningWriteAt = {}
            /\ ~SummaryPrinted
            /\ out[Len(out)] = "Failed while generating SSH key"

C8_Witness ==
    /\ Len(calls) = 3
    /\ IsKeygen(calls[3])
    /\ calls[3].site = "setupSigning"
    /\ ~calls[3].ok
    /\ exitCode = <<1>>

(* C9  The key path is never empty when ssh-keygen is invoked nor when      *)
(*     user.signingkey is written.                                          *)

C9_KeyPathNeverEmpty ==
    \A i \in DOMAIN calls :
        /\ IsKeygen(calls[i]) => calls[i].f # ""
        /\ IsGit(calls[i], "user.signingkey") => calls[i].value # ""

(* C10 The username field rejects exactly the empty text and the email      *)
(*     field rejects exactly the texts lacking "@" or "."; so every git     *)
(*     command runs with a non-empty username and an email that has both.   *)

C10_FormValidation ==
    /\ (pc = "form_username" /\ formErr # "") => username = <<>>
    /\ (pc \in FormFields \ {"form_gitContext", "form_username"}) => username # <<>>
    /\ (pc = "form_email" /\ formErr # "") =>
           ~(HasChar(email, "@") /\ HasChar(email, "."))
    /\ (pc \in {"form_ignoreSSH", "form_sshPath", "form_signing"}) =>
           (HasChar(email, "@") /\ HasChar(email, "."))
    /\ (pc \notin FormFields \cup {"promptForm", "exited"} \/ Len(calls) > 0) =>
           /\ username # <<>>
           /\ HasChar(email, "@")
           /\ HasChar(email, ".")

C10_Witness ==
    /\ pc = "form_email"
    /\ formErr = "Not valid email address"
    /\ HasChar(email, "@")
    /\ username # <<>>

====
